---- MODULE Spec2Model ----
(***************************************************************************)
(* PDF question answering: the ingest workflow (load-and-chunk, then       *)
(* embed-and-upsert), the query workflow (embed-and-search) and the        *)
(* QdrantStorage wrapper around one vector collection.                     *)
(*                                                                         *)
(* Strings that the code formats or compares character by character        *)
(* (source ids, uuid names) are sequences of one-character strings.        *)
(* A vector (list[float]) is kept as its length and the text it embeds.    *)
(***************************************************************************)
EXTENDS Integers, Sequences, FiniteSets, Bags, TLC

(* ---------------------------- bounds ----------------------------------- *)
MaxChunks == 2      \* longest chunk list a document yields
MaxRuns   == 2      \* workflow runs triggered in one behaviour
MaxTopK   == 2      \* largest top_k an event carries
MaxIndex  == 11     \* largest chunk index tried on the id scheme
MaxSrcLen == 2      \* longest source_id tried on the id scheme
OtherDim  == 1536   \* a dimension a caller may pass instead of the default

(* ------------------------- program constants --------------------------- *)
EMBED_DIM  == 3072  \* data_loader.py: length of text-embedding-3-large vectors
DefaultDim == 3072  \* vector_db.py: QdrantStorage.__init__(dim=3072)
DefaultTopK == 5    \* main.py: event.data.get("top_k", 5)

None == "None"
DefaultCollection == "docs"
COSINE == "Cosine"
NAMESPACE_URL == "6ba7b811-9dad-11d1-80b4-00c04fd430c8"

Dims  == {DefaultDim, OtherDim}
Alphabet == {"a", ":", "1"}

RECURSIVE SeqsUpTo(_, _)
SeqsUpTo(S, n) ==
    IF n = 0 THEN {<<>>}
    ELSE LET shorter == SeqsUpTo(S, n - 1)
         IN  shorter \cup {Append(q, x) : q \in {p \in shorter : Len(p) = n - 1}, x \in S}

(* Event payloads as the front end sends them: rag/ingest_pdf carries the  *)
(* resolved pdf_path and the file name as source_id; rag/query_pdf_ai      *)
(* carries the question and top_k (at least 1).                            *)
IngestEvents == {[pdf_path |-> <<"/", "a">>, source_id |-> <<"a">>]}
QueryEvents  == {[question |-> <<"q">>, top_k |-> k] : k \in 1 .. MaxTopK}

(* ------------------------- identity scheme ----------------------------- *)
Digit(d) == CASE d = 0 -> "0" [] d = 1 -> "1" [] d = 2 -> "2" [] d = 3 -> "3"
              [] d = 4 -> "4" [] d = 5 -> "5" [] d = 6 -> "6" [] d = 7 -> "7"
              [] d = 8 -> "8" [] d = 9 -> "9"

\* str(i) for i >= 0: decimal digits, no leading zero
RECURSIVE Str(_)
Str(i) == IF i < 10 THEN <<Digit(i)>> ELSE Append(Str(i \div 10), Digit(i % 10))

\* the text of the i-th chunk of version v of the document
Text(v, i) == <<v>> \o Str(i)

\* the chunk lists a file can yield: the first n chunks of one of its versions
Versions == {"t"}
ChunkLists == {[i \in 1 .. n |-> Text(v, i)] : v \in Versions, n \in 0 .. MaxChunks}

\* f"{source_id}{i}": the separator forgotten
UuidNameNoSep(source_id, i) == source_id \o Str(i)

\* f"{source_id}:{i}"
UuidName(source_id, i) == source_id \o <<":">> \o Str(i)

\* uuid.uuid5(namespace, name): a hash of (namespace, name); kept symbolic,
\* two uuids are equal exactly when namespace and name are
uuid5(namespace, name) == [namespace |-> namespace, name |-> name]

\* str(uuid.uuid5(uuid.NAMESPACE_URL, f"{source_id}:{i}"))
DeriveId(source_id, i) == uuid5(NAMESPACE_URL, UuidName(source_id, i))

\* ids = [... for i in range(len(chunks))]
IngestIds(source_id, chunks) == [i \in 1 .. Len(chunks) |-> DeriveId(source_id, i - 1)]

\* payloads = [{"source": source_id, "text": chunks[i]} ...]
IngestPayloads(source_id, chunks) ==
    [i \in 1 .. Len(chunks) |-> [source |-> source_id, text |-> chunks[i]]]

(* ------------------------------ embedder ------------------------------- *)
Vector(len, text) == [len |-> len, of |-> text]

\* embed_texts(texts): the embedding service answers with one vector per
\* input text, in order, or the call raises
embed_texts(texts) ==
    {[raised |-> None, vecs |-> [i \in 1 .. Len(texts) |-> Vector(EMBED_DIM, texts[i])]],
     [raised |-> "APIError", vecs |-> <<>>]}

\* load_and_chunk_pdf(path): the chunks of the file at path, or the reader raises
load_and_chunk_pdf(path) ==
    {[raised |-> None, chunks |-> chunks] : chunks \in ChunkLists}
        \cup {[raised |-> "LoadError", chunks |-> <<>>]}

Range(f) == {f[i] : i \in DOMAIN f}


(* ---------------------------- vector store ----------------------------- *)
(* colls maps each existing collection name to its vectors_config (size,   *)
(* distance) and its points, a function from point id to vector + payload. *)
PointStruct(id, vector, payload) == [id |-> id, vector |-> vector, payload |-> payload]

VectorParams(size, distance) == [size |-> size, distance |-> distance]

NoPoints == [id \in {} |-> 0]

PutPoint(points, p) ==
    [id \in DOMAIN points \cup {p.id} |->
        IF id = p.id THEN [vector |-> p.vector, payload |-> p.payload] ELSE points[id]]

RECURSIVE PutPoints(_, _)
PutPoints(points, ps) ==
    IF ps = <<>> THEN points ELSE PutPoints(PutPoint(points, Head(ps)), Tail(ps))

WithPoints(cs, c, points) == [cs EXCEPT ![c].points = points]

\* client.collection_exists(name)
CollectionExists(cs, c) == c \in DOMAIN cs

\* client.create_collection(collection_name, vectors_config)
CreateCollection(cs, c, params) ==
    [n \in DOMAIN cs \cup {c} |->
        IF n = c THEN [size |-> params.size, distance |-> params.distance, points |-> NoPoints]
        ELSE cs[n]]

WellFormed(cs, c, p) == p.vector.len = cs[c].size

\* the points that precede the first one the store rejects
RECURSIVE AcceptedPrefix(_, _, _)
AcceptedPrefix(cs, c, ps) ==
    IF ps = <<>> \/ ~WellFormed(cs, c, Head(ps)) THEN <<>>
    ELSE <<Head(ps)>> \o AcceptedPrefix(cs, c, Tail(ps))

\* client.upsert(collection, points): the outcomes the store can produce.
\* A batch of well-formed points is written whole, each point inserted or
\* overwritten under its id. A batch with a vector of the wrong length is
\* answered with an error; the store validates point by point, so the points
\* it took before the offending one may or may not have been written.
ClientUpsert(cs, c, ps) ==
    IF \A i \in DOMAIN ps : WellFormed(cs, c, ps[i])
    THEN {[raised |-> None, colls |-> WithPoints(cs, c, PutPoints(cs[c].points, ps))]}
    ELSE {[raised |-> "UnexpectedResponse", colls |-> cs],
          [raised |-> "UnexpectedResponse",
           colls  |-> WithPoints(cs, c, PutPoints(cs[c].points, AcceptedPrefix(cs, c, ps)))]}

\* QdrantStorage.__init__, with the collection dropped and created again
QdrantStorageInitRecreate(cs, collection, dim) ==
    [store |-> [collection |-> collection, dim |-> dim],
     colls |-> CreateCollection(cs, collection, VectorParams(dim, COSINE))]

\* QdrantStorage.__init__(url, collection, dim): the handle keeps the
\* collection name; dim is used only when the collection is created
QdrantStorageInit(cs, collection, dim) ==
    [store |-> [collection |-> collection, dim |-> dim],
     colls |-> IF ~CollectionExists(cs, collection)
               THEN CreateCollection(cs, collection, VectorParams(dim, COSINE))
               ELSE cs]

\* QdrantStorage.upsert(self, ids, vectors, payloads)
QdrantStorageUpsert(cs, self, ids, vectors, payloads) ==
    LET points == [i \in 1 .. Len(ids) |-> PointStruct(ids[i], vectors[i], payloads[i])]
    IN  ClientUpsert(cs, self.collection, points)

\* QdrantStorage.upsert(ids=..., vectors=..., payloads=...) called on the
\* class: the parameter self is not bound and the call raises before the body
UnboundUpsert(cs, kwargs) ==
    IF "self" \in DOMAIN kwargs
    THEN QdrantStorageUpsert(cs, kwargs.self, kwargs.ids, kwargs.vectors, kwargs.payloads)
    ELSE {[raised |-> "TypeError", colls |-> cs]}

\* the first limit points of the collection, in some order the store picks
RECURSIVE SomeOrder(_)
SomeOrder(S) ==
    IF S = {} THEN <<>> ELSE LET x == CHOOSE y \in S : TRUE IN <<x>> \o SomeOrder(S \ {x})

Min(a, b) == IF a < b THEN a ELSE b

\* client.search(collection_name, query_vector, with_payload, limit):
\* collection_name is a required parameter
ClientSearch(cs, kwargs) ==
    IF "collection_name" \notin DOMAIN kwargs
    THEN [raised |-> "TypeError", results |-> <<>>]
    ELSE LET pts == cs[kwargs.collection_name].points
             all == SomeOrder(DOMAIN pts)
         IN  [raised |-> None,
              results |-> [i \in 1 .. Min(kwargs.limit, Len(all)) |->
                              [id |-> all[i], payload |-> pts[all[i]].payload]]]

\* the loop of QdrantStorage.search over the results
RECURSIVE Contexts(_)
Contexts(results) ==
    IF results = <<>> THEN <<>>
    ELSE LET payload == Head(results).payload
         IN  IF "text" \in DOMAIN payload /\ payload.text # <<>>
             THEN <<payload.text>> \o Contexts(Tail(results))
             ELSE Contexts(Tail(results))

SourcesOf(results) ==
    {IF "source" \in DOMAIN results[i].payload THEN results[i].payload.source ELSE <<>> :
        i \in {j \in DOMAIN results :
                 "text" \in DOMAIN results[j].payload /\ results[j].payload.text # <<>>}}

\* QdrantStorage.search(self, query_vector, top_k)
QdrantStorageSearch(cs, self, query_vector, top_k) ==
    LET res == ClientSearch(cs, [colelction_name |-> self.collection,
                                 query_vector |-> query_vector,
                                 with_payload |-> TRUE,
                                 limit |-> top_k])
    IN  IF res.raised # None
        THEN [raised |-> res.raised, results |-> <<>>, contexts |-> <<>>, sources |-> {}]
        ELSE [raised |-> None, results |-> res.results,
              contexts |-> Contexts(res.results), sources |-> SourcesOf(res.results)]

(* ------------------------------- state --------------------------------- *)
VARIABLES
    colls,       \* the vector store: collection name -> config and points
    stores,      \* QdrantStorage handles callers hold: collection name and the dim passed
    runs,        \* the bag of workflow runs triggered so far
    idq          \* two (source_id, index) pairs put to the id scheme

vars == <<colls, stores, runs, idq>>

NoId == uuid5(NAMESPACE_URL, <<>>)
NoQuery == [s1 |-> <<>>, i1 |-> 0, s2 |-> <<>>, i2 |-> 0, derived |-> FALSE,
            id1 |-> NoId, id2 |-> NoId]

Init ==
    /\ colls = [n \in {} |-> 0]
    /\ stores = {}
    /\ runs = EmptyBag
    /\ idq = NoQuery

Runs == BagToSet(runs)

\* the run rec moves on to new
SetRun(rec, new) == runs' = (runs (-) SetToBag({rec})) (+) SetToBag({new})

(* --------------------------- ingest workflow --------------------------- *)
(* A step function is synchronous: once started it runs to its return or   *)
(* its exception without yielding, so each step is one action. A step that *)
(* raises fails the run; a retry shows as a further run of the same event. *)
NewIngestRun(data) ==
    [kind |-> "ingest", pc |-> "load-and-chunk", data |-> data,
     source_id |-> <<>>, chunks |-> <<>>, vecs |-> <<>>, ids |-> <<>>,
     loaded |-> FALSE, embedded |-> FALSE, embedCalls |-> 0, upsertCalls |-> 0,
     ingested |-> -1, err |-> None]

\* the event rag/ingest_pdf triggers a run of rag_ingest_pdf
TriggerIngest(data) ==
    /\ BagCardinality(runs) < MaxRuns
    /\ runs' = runs (+) SetToBag({NewIngestRun(data)})
    /\ UNCHANGED <<colls, stores, idq>>

\* _load(ctx): the outcomes of step "load-and-chunk" for the run rec
rag_ingest_pdf_load(rec) ==
    LET data == rec.data
        pdf_path == data.pdf_path
        source_id == IF "source_id" \in DOMAIN data THEN data.source_id ELSE pdf_path
    IN  {IF l.raised # None
         THEN [rec EXCEPT !.pc = "failed", !.err = l.raised]
         ELSE [rec EXCEPT !.pc = "embed-and-upsert", !.loaded = TRUE,
                          !.source_id = source_id, !.chunks = l.chunks] :
         l \in load_and_chunk_pdf(pdf_path)}

\* the upsert call of _upsert and the return that follows it
UpsertCall(cs, rec, vecs) ==
    LET chunks == rec.chunks
        source_id == rec.source_id
        ids == IngestIds(source_id, chunks)
        payloads == IngestPayloads(source_id, chunks)
    IN  {[colls |-> out.colls,
          run |-> IF out.raised # None
                  THEN [rec EXCEPT !.pc = "failed", !.err = out.raised, !.ids = ids,
                                   !.vecs = vecs, !.upsertCalls = @ + 1]
                  ELSE [rec EXCEPT !.pc = "done", !.ids = ids, !.vecs = vecs,
                                   !.upsertCalls = @ + 1, !.ingested = Len(chunks)]] :
         out \in UnboundUpsert(cs, [ids |-> ids, vectors |-> vecs, payloads |-> payloads])}

\* _upsert with a failed embedding call swallowed: the upsert goes ahead
rag_ingest_pdf_upsert_swallow(cs, rec) ==
    UNION {UpsertCall(cs, [rec EXCEPT !.embedCalls = @ + 1, !.embedded = e.raised = None],
                      e.vecs) :
           e \in embed_texts(rec.chunks)}

\* _upsert(chunks_and_src): the outcomes of step "embed-and-upsert"
rag_ingest_pdf_upsert(cs, rec) ==
    UNION {IF e.raised # None
           THEN {[colls |-> cs,
                  run |-> [rec EXCEPT !.pc = "failed", !.err = e.raised,
                                      !.embedCalls = @ + 1]]}
           ELSE UpsertCall(cs, [rec EXCEPT !.embedCalls = @ + 1, !.embedded = TRUE], e.vecs) :
           e \in embed_texts(rec.chunks)}

\* await ctx.step.run("load-and-chunk", ...)
IngestLoad(rec) ==
    /\ rec.kind = "ingest" /\ rec.pc = "load-and-chunk"
    /\ \E new \in rag_ingest_pdf_load(rec) : SetRun(rec, new)
    /\ UNCHANGED <<colls, stores, idq>>

\* await ctx.step.run("embed-and-upsert", ...)
IngestUpsert(rec) ==
    /\ rec.kind = "ingest" /\ rec.pc = "embed-and-upsert"
    /\ \E out \in rag_ingest_pdf_upsert(colls, rec) :
          /\ colls' = out.colls
          /\ SetRun(rec, out.run)
    /\ UNCHANGED <<stores, idq>>

(* ---------------------------- query workflow --------------------------- *)
NewQueryRun(data) ==
    [kind |-> "query", pc |-> "embed-and-search", data |-> data,
     question |-> data.question,
     top_k |-> IF "top_k" \in DOMAIN data THEN data.top_k ELSE DefaultTopK,
     embedCalls |-> 0, connected |-> FALSE, searched |-> FALSE, held |-> 0,
     results |-> <<>>, contexts |-> <<>>, sources |-> {}, err |-> None]

\* the event rag/query_pdf_ai triggers a run of rag_query_pdf_ai
TriggerQuery(data) ==
    /\ BagCardinality(runs) < MaxRuns
    /\ runs' = runs (+) SetToBag({NewQueryRun(data)})
    /\ UNCHANGED <<colls, stores, idq>>

\* _search(question, top_k): the outcomes of step "embed-and-search"
rag_query_pdf_ai_search(cs, rec) ==
    {IF e.raised # None
     THEN [colls |-> cs,
           run |-> [rec EXCEPT !.pc = "failed", !.err = e.raised, !.embedCalls = @ + 1]]
     ELSE LET query_vec == e.vecs[1]
              made == QdrantStorageInit(cs, DefaultCollection, DefaultDim)
              store == made.store
              found == QdrantStorageSearch(made.colls, store, query_vec, rec.top_k)
              held == Cardinality(DOMAIN made.colls[store.collection].points)
              at == [rec EXCEPT !.embedCalls = @ + 1, !.connected = TRUE,
                                !.searched = TRUE, !.held = held]
          IN  [colls |-> made.colls,
               run |-> IF found.raised # None
                       THEN [at EXCEPT !.pc = "failed", !.err = found.raised]
                       ELSE [at EXCEPT !.pc = "llm-answer", !.results = found.results,
                                       !.contexts = found.contexts,
                                       !.sources = found.sources]] :
     e \in embed_texts(<<rec.question>>)}

\* await ctx.step.run("embed-and-search", ...)
QuerySearch(rec) ==
    /\ rec.kind = "query" /\ rec.pc = "embed-and-search"
    /\ \E out \in rag_query_pdf_ai_search(colls, rec) :
          /\ colls' = out.colls
          /\ SetRun(rec, out.run)
    /\ UNCHANGED <<stores, idq>>

(* ------------------- QdrantStorage used through a handle --------------- *)
\* a caller constructs QdrantStorage(collection=c, dim=d)
NewStore(c, d) ==
    /\ LET out == QdrantStorageInit(colls, c, d)
       IN  /\ out.store \notin stores
           /\ colls' = out.colls
           /\ stores' = stores \cup {out.store}
    /\ UNCHANGED <<runs, idq>>

\* the sources a batch may name: the ones an ingest event can yield
BatchSources == {e.source_id : e \in IngestEvents}

\* a caller upserts, through the handle self, the batch an ingest of chunks
\* under source_id builds, its i-th vector of length lens[i]
StoreUpsert(self, source_id, chunks, lens) ==
    /\ self \in stores
    /\ LET ids == IngestIds(source_id, chunks)
           vectors == [i \in 1 .. Len(chunks) |-> Vector(lens[i], chunks[i])]
           payloads == IngestPayloads(source_id, chunks)
       IN  \E out \in QdrantStorageUpsert(colls, self, ids, vectors, payloads) :
              colls' = out.colls
    /\ UNCHANGED <<stores, runs, idq>>

(* ----------------------------- specification --------------------------- *)
Next ==
    \/ \E data \in IngestEvents : TriggerIngest(data)
    \/ \E data \in QueryEvents : TriggerQuery(data)
    \/ \E rec \in Runs : IngestLoad(rec)
    \/ \E rec \in Runs : IngestUpsert(rec)
    \/ \E rec \in Runs : QuerySearch(rec)
    \/ \E d \in Dims : NewStore(DefaultCollection, d)
    \/ \E self \in stores, source_id \in BatchSources, chunks \in ChunkLists \ {<<>>} :
          \E lens \in [1 .. Len(chunks) -> Dims] : StoreUpsert(self, source_id, chunks, lens)

Spec == Init /\ [][Next]_vars

(* ------------- the id scheme on pairs of (source_id, index) ------------ *)
IdSources == SeqsUpTo(Alphabet, MaxSrcLen)

IdInit ==
    /\ colls = [n \in {} |-> 0]
    /\ stores = {}
    /\ runs = EmptyBag
    /\ \E s1 \in IdSources, s2 \in IdSources, i1 \in 0 .. MaxIndex, i2 \in 0 .. MaxIndex :
          idq = [NoQuery EXCEPT !.s1 = s1, !.i1 = i1, !.s2 = s2, !.i2 = i2]

\* line 79 of _upsert applied to both pairs
DeriveBoth ==
    /\ ~idq.derived
    /\ idq' = [idq EXCEPT !.derived = TRUE,
                          !.id1 = DeriveId(idq.s1, idq.i1),
                          !.id2 = DeriveId(idq.s2, idq.i2)]
    /\ UNCHANGED <<colls, stores, runs>>

IdNext == DeriveBoth

SpecId == IdInit /\ [][IdNext]_vars

(* ------------------------------- properties ---------------------------- *)
IngestRuns == {rec \in Runs : rec.kind = "ingest"}
QueryRuns  == {rec \in Runs : rec.kind = "query"}

\* the run's second step has ended, with the chunks embedded
PastUpsert(rec) == rec.loaded /\ rec.embedded /\ rec.pc # "embed-and-upsert"

StoredIds == IF CollectionExists(colls, DefaultCollection)
             THEN DOMAIN colls[DefaultCollection].points ELSE {}

C2_IngestPostcondition ==
    \A rec \in IngestRuns :
        (PastUpsert(rec) /\ Len(rec.chunks) >= 1)
            => /\ rec.pc = "done"
               /\ rec.ingested = Len(rec.chunks)
               /\ \A i \in 1 .. Len(rec.chunks) :
                     LET id == DeriveId(rec.source_id, i - 1)
                     IN  /\ id \in StoredIds
                         /\ colls[DefaultCollection].points[id] =
                               [vector |-> rec.vecs[i],
                                payload |-> [source |-> rec.source_id, text |-> rec.chunks[i]]]

\* C3: an ingest run whose load-and-chunk yields no chunk returns
\* ingested = 0 and calls neither the embedding service nor upsert.
C3_EmptyShortCircuit ==
    \A rec \in IngestRuns :
        (rec.loaded /\ rec.chunks = <<>> /\ rec.pc # "embed-and-upsert")
            => /\ rec.pc = "done"
               /\ rec.ingested = 0
               /\ rec.embedCalls = 0
               /\ rec.upsertCalls = 0

\* C4: no handle a constructor returned has a configured dim (or metric)
\* other than that of the collection it names.
C4_SchemaCheck ==
    \A self \in stores :
        /\ colls[self.collection].size = self.dim
        /\ colls[self.collection].distance = COSINE

\* some upsert through a handle whose batch has a vector of the wrong length
BadUpsertStep ==
    \E self \in stores, source_id \in BatchSources, chunks \in ChunkLists \ {<<>>} :
        \E lens \in [1 .. Len(chunks) -> Dims] :
            /\ \E i \in DOMAIN lens : lens[i] # colls[self.collection].size
            /\ StoreUpsert(self, source_id, chunks, lens)

AllVectorsFit ==
    \A c \in DOMAIN colls :
        \A id \in DOMAIN colls[c].points : colls[c].points[id].vector.len = colls[c].size

\* C5: every stored vector has the length of its collection's dimension,
\* and an upsert whose batch has a vector of another length leaves the
\* collection as it was, the well-formed points of the batch included.
C5_DimensionInvariant ==
    /\ []AllVectorsFit
    /\ [][BadUpsertStep => colls' = colls]_vars

\* C6: a search with top_k >= 1 gives at most top_k contexts, and fewer
\* than top_k only when the collection holds fewer than top_k records.
C6_TopKBound ==
    \A rec \in QueryRuns :
        (rec.searched /\ rec.top_k >= 1)
            => /\ Len(rec.contexts) <= rec.top_k
               /\ Len(rec.contexts) < rec.top_k => rec.held < rec.top_k

\* C7: a search returns; its contexts are the non-empty texts of the (at
\* most top_k) records the store returned, in order; its sources are the
\* sources of the records not skipped; on an empty collection both are empty.
C7_SearchProjection ==
    \A rec \in QueryRuns :
        rec.searched
            => /\ rec.err = None
               /\ Len(rec.results) <= rec.top_k
               /\ rec.contexts = Contexts(rec.results)
               /\ rec.sources = SourcesOf(rec.results)
               /\ rec.held = 0 => (rec.contexts = <<>> /\ rec.sources = {})

\* the step of some query run
QueryStep == \E rec \in Runs : QuerySearch(rec)

\* C8 as stated: a query run leaves the vector store as it found it, the
\* set of existing collections included.
C8_QueryReadOnly == [][QueryStep => colls' = colls]_vars

\* C8 amended: a query run leaves every existing collection as it found it
\* (dimension, metric, records); the one change it can make is to create the
\* collection "docs", empty, of dimension 3072 and cosine metric, when it
\* does not exist.
C8_QueryKeepsRecords ==
    [][QueryStep =>
          /\ \A c \in DOMAIN colls : c \in DOMAIN colls' /\ colls'[c] = colls[c]
          /\ \A c \in DOMAIN colls' \ DOMAIN colls :
                /\ c = DefaultCollection
                /\ colls'[c] = [size |-> DefaultDim, distance |-> COSINE, points |-> NoPoints]
      ]_vars

\* a query run has searched a collection that held records
C8_Witness == \E rec \in QueryRuns : rec.connected /\ rec.held >= 1

\* C9: the id depends on (source_id, index) alone, and two pairs get the
\* same id only if they are the same pair, also for source_ids that hold
\* ':' or digits.
C9_CollisionFreeIdentity ==
    idq.derived =>
        /\ idq.id1 = DeriveId(idq.s1, idq.i1)
        /\ idq.id2 = DeriveId(idq.s2, idq.i2)
        /\ (idq.id1 = idq.id2) <=> (idq.s1 = idq.s2 /\ idq.i1 = idq.i2)

\* ids derived for two different pairs, ':' and a digit among the source_ids
C9_Witness ==
    /\ idq.derived
    /\ <<idq.s1, idq.i1>> # <<idq.s2, idq.i2>>
    /\ ":" \in Range(idq.s1)
    /\ "1" \in Range(idq.s2)
    /\ idq.i1 >= 10

\* the run new is what a step of this transition left of some run
MovedTo(new) ==
    \E rec \in Runs : rec # new /\ runs' = (runs (-) SetToBag({rec})) (+) SetToBag({new})

C10_Order ==
    \A rec \in IngestRuns :
        /\ rec.embedCalls > 0 => rec.loaded
        /\ rec.upsertCalls > 0 => (rec.embedCalls > 0 /\ rec.embedded
                                   /\ Len(rec.vecs) = Len(rec.chunks))
        /\ rec.err \in {"LoadError", "APIError"} => rec.upsertCalls = 0

C10_FailedStepWritesNothing ==
    \A new \in BagToSet(runs') :
        (new.kind = "ingest" /\ new.err \in {"LoadError", "APIError"} /\ MovedTo(new))
            => colls' = colls

\* C10: in an ingest run the embedding call comes only after load-and-chunk
\* succeeded and the upsert call only after the embedding returned a vector
\* for every chunk; a run whose load or embedding failed issues no upsert
\* and its failing step leaves the collection unchanged.
C10_StepOrder == []C10_Order /\ [][C10_FailedStepWritesNothing]_vars

\* one run has issued its upsert call, another has failed at the embedding
C10_Witness ==
    /\ \E rec \in IngestRuns : rec.upsertCalls > 0 /\ Len(rec.chunks) >= 1
    /\ \E rec \in IngestRuns : rec.err = "APIError"

\* the records of the longer of two ingests of one source are still stored
C11_TrailingKept ==
    \A long \in IngestRuns, short \in IngestRuns :
        (/\ PastUpsert(long) /\ PastUpsert(short)
         /\ long.source_id = short.source_id
         /\ Len(short.chunks) < Len(long.chunks))
            => \A i \in Len(short.chunks) + 1 .. Len(long.chunks) :
                  LET id == DeriveId(long.source_id, i - 1)
                  IN  /\ id \in StoredIds
                      /\ colls[DefaultCollection].points[id].payload.text = long.chunks[i]

C11_IdsOnlyGrow == StoredIds \subseteq StoredIds'

\* C11: no step removes a stored record id; and once n chunks and then
\* m < n chunks were ingested under one source_id, the records keyed
\* DeriveId(s, m..n-1) are stored with the text of the n-chunk run.
C11_NeverDeleted == []C11_TrailingKept /\ [][C11_IdsOnlyGrow]_vars

\* the first half of C11 alone: no step removes a stored record id
C11_Monotone == [][C11_IdsOnlyGrow]_vars

====
